---- MODULE Spec2Model ----
(***************************************************************************)
(* Model of the pagination / export loop of bucketsearch (src/main.go):    *)
(* handleFiles and handleBuckets, their sink (csv.Writer over an os.File,  *)
(* or an in-memory slice rendered at the end) and the remote API they      *)
(* page through.                                                           *)
(*                                                                         *)
(* Strings that the code inspects (the bucket type tag and the -type       *)
(* filter) are sequences of ASCII codes, so that strings.EqualFold is      *)
(* computed and not assumed.  A record carries the fields the sink and the *)
(* filter read: id, bucket and type; the other columns (name, url, size,   *)
(* lastModified, fileCount) are copied field by field by the code and are  *)
(* left out.                                                               *)
(***************************************************************************)
EXTENDS Integers, Sequences, FiniteSets, TLC

VARIABLES
    cmd,          \* -cmd: "files" or "buckets"
    limit,        \* -limit
    start,        \* -start
    output,       \* -o: <<>> (print) or a file path, as ASCII codes
    cloudType,    \* -type, a sequence of ASCII codes
    onlyBucket,   \* -onlybucket
    pc,           \* "start", "request", "await", "done", "aborted"
    pageSize,     \* pageSize
    offset,       \* offset
    total,        \* total
    fetched,      \* fetched
    allRecords,   \* allFiles / allBuckets (nil slice = <<>>)
    wbuf,         \* rows held in the csv.Writer's buffer
    file,         \* rows that reached the output file
    fileOpen,     \* the *os.File is open
    stdout,       \* result output on standard output (progress line left out)
    fatal,        \* message of the log.Fatalf that ended the run, "" if none
    db,           \* records held by the well-behaved API (<<>> otherwise)
    requests,     \* history: the requests issued, [start, limit]
    pages,        \* history: the record list of every decoded page
    forwarded     \* history: the records handed to the sink, in order

vars == <<cmd, limit, start, output, cloudType, onlyBucket, pc, pageSize,
          offset, total, fetched, allRecords, wbuf, file, fileOpen, stdout,
          fatal, db, requests, pages, forwarded>>

flags == <<cmd, limit, start, output, cloudType, onlyBucket>>

----------------------------------------------------------------------------
(* Bounds *)

MaxStart == 1        \* starting offsets 0..MaxStart (and -1 against any API)
MaxPageLen == 5      \* the API returns at most this many records per page
MaxPages == 3        \* requests issued per run against an arbitrary API
MaxResults == 3      \* largest meta.results an arbitrary API reports
MaxN == 3            \* records held by the well-behaved API

(* Program constant *)
MaxPageSize == 1000

----------------------------------------------------------------------------
(* Strings as ASCII codes *)

aws == <<97, 119, 115>>      \* "aws"
AWS == <<65, 87, 83>>        \* "AWS"
azure == <<97, 122>>         \* "az", standing for any other provider tag

Tags == {aws, azure}               \* type tags the API reports
CloudTypes == {<<>>, aws, AWS}     \* values of -type

\* values of -limit: negative, zero, small, the maximum, beyond the maximum
Limits == {-1, 0, 1, 2, MaxPageSize, MaxPageSize + 1}
Starts == -1 .. MaxStart
Outputs == {<<>>, <<111, 46, 99, 115, 118>>}    \* "", "o.csv"
ResultsValues == -1 .. MaxResults

----------------------------------------------------------------------------
(* Pure helpers of handleFiles / handleBuckets *)

Min(a, b) == IF a < b THEN a ELSE b

\* pageSize := limit; if pageSize <= 0 || pageSize > 1000 { pageSize = 1000 }
ClampPageSizeNoZero(l) == IF l < 0 \/ l > MaxPageSize THEN MaxPageSize ELSE l

ClampPageSize(l) == IF l <= 0 \/ l > MaxPageSize THEN MaxPageSize ELSE l

\* strings.EqualFold on ASCII input: bytes are compared pairwise; two bytes
\* match when equal, or when the smaller is an upper-case letter and the
\* larger is that letter plus 'a'-'A'; the lengths must agree.
FoldByteEq(a, b) ==
    LET sr == Min(a, b)
        tr == IF a < b THEN b ELSE a
    IN  \/ sr = tr
        \/ (65 <= sr /\ sr <= 90 /\ tr = sr + 32)

EqualFoldExact(s, t) == s = t

EqualFold(s, t) ==
    /\ Len(s) = Len(t)
    /\ \A i \in 1 .. Len(s) : FoldByteEq(s[i], t[i])

\* filtered := resp.Buckets; if cloudType != "" { keep b with EqualFold }
FilterBuckets(recs, ct) ==
    IF ct # <<>>
    THEN SelectSeq(recs, LAMBDA b : EqualFold(b.type, ct))
    ELSE recs

\* fmt.Sprint of a non-negative integer id: its decimal digits
RECURSIVE Sprint(_)
Sprint(n) == IF n < 10 THEN <<48 + n>> ELSE Sprint(n \div 10) \o <<48 + (n % 10)>>

sId == <<105, 100>>                          \* "id"
sBucket == <<98, 117, 99, 107, 101, 116>>    \* "bucket"
sType == <<116, 121, 112, 101>>              \* "type"

\* the header row written right after csv.NewWriter
Header(c, only) ==
    IF c = "buckets" /\ only THEN <<sBucket>>
    ELSE <<sId, sBucket, sType>>

\* one w.Write call: the row of one record
Row(c, only, r) ==
    IF c = "buckets" /\ only THEN <<r.bucket>>
    ELSE <<Sprint(r.id), r.bucket, r.type>>

Rows(c, only, recs) == [i \in 1 .. Len(recs) |-> Row(c, only, recs[i])]

\* w.Flush() at the end of a page: the buffered rows reach the file
PageFlushLost(f, w) == f

PageFlush(f, w) == f \o w

\* if total == -1 { total = resp.Meta.Results }
CaptureTotal(t, results) == IF t = -1 THEN results ELSE t

\* len(page) < pageSize || (total > 0 && offset+pageSize >= total)
ShouldStopStrict(n, ps, t, off) == n < ps \/ (t > 0 /\ off + ps > t)

ShouldStop(n, ps, t, off) == n < ps \/ (t > 0 /\ off + ps >= t)

\* offset += pageSize
NextOffsetStuck(off, ps) == off

NextOffsetSkip(off, ps) == off + ps + 1

NextOffset(off, ps) == off + ps

\* json.MarshalIndent of a slice: a nil slice encodes as null, any other as
\* an array of its elements.  allFiles / allBuckets is nil exactly when no
\* record was ever appended (append of nothing to a nil slice returns nil).
MarshalIndent(recs) ==
    IF recs = <<>> THEN [kind |-> "null", body |-> <<>>]
    ELSE [kind |-> "array", body |-> recs]

\* what the command prints after the loop
Completion(c, out, only, recs) ==
    IF out # <<>> THEN << [kind |-> "completed", body |-> out] >>
    ELSE IF c = "buckets" /\ only
         THEN [i \in 1 .. Len(recs) |-> [kind |-> "line", body |-> recs[i].bucket]]
         ELSE << MarshalIndent(recs) >>

----------------------------------------------------------------------------
(* The remote API *)

FileTypes == {<<112, 100, 102>>}     \* "pdf"

Name(i) == <<98>> \o Sprint(i)        \* "b0", "b1", ...

MkRecord(i, tag) == [id |-> i, bucket |-> Name(i), type |-> tag]

TagsFor(c) == IF c = "files" THEN FileTypes ELSE Tags

\* the pages of n records an arbitrary API may answer with; ids are serial
PagesOf(c, n, first) ==
    { [i \in 1 .. n |-> MkRecord(first + i - 1, tagf[i])] :
        tagf \in [1 .. n -> TagsFor(c)] }

Received == IF pages = <<>> THEN 0
            ELSE LET RECURSIVE Sum(_)
                     Sum(k) == IF k = 0 THEN 0 ELSE Len(pages[k]) + Sum(k - 1)
                 IN Sum(Len(pages))

\* the well-behaved API: records o .. min(o+P,N)-1 of db
Slice(d, o, p) == SubSeq(d, o + 1, Min(o + p, Len(d)))

----------------------------------------------------------------------------
(* Initial states: the flags, before the handler runs *)

FlagsInit ==
    /\ cmd \in {"files", "buckets"}
    /\ limit \in Limits
    /\ output \in Outputs
    /\ cloudType \in (IF cmd = "buckets" THEN CloudTypes ELSE {<<>>})
    /\ onlyBucket \in (IF cmd = "buckets" THEN BOOLEAN ELSE {FALSE})

LocalsInit ==
    /\ pc = "start"
    /\ pageSize = 0
    /\ offset = 0
    /\ total = 0
    /\ fetched = 0
    /\ allRecords = <<>>
    /\ wbuf = <<>>
    /\ file = <<>>
    /\ fileOpen = FALSE
    /\ stdout = <<>>
    /\ fatal = ""
    /\ requests = <<>>
    /\ pages = <<>>
    /\ forwarded = <<>>

Init ==
    /\ FlagsInit
    /\ start \in Starts
    /\ db = <<>>
    /\ LocalsInit

----------------------------------------------------------------------------
(* Actions *)

\* lines 122-142 / 206-230: clamp the page size, open the sink, write the
\* header into the csv.Writer, set offset and total
Start ==
    /\ pc = "start"
    /\ pageSize' = ClampPageSize(limit)
    /\ IF output # <<>>
       THEN /\ fileOpen' = TRUE
            /\ file' = <<>>
            /\ wbuf' = <<Header(cmd, onlyBucket)>>
       ELSE UNCHANGED <<fileOpen, file, wbuf>>
    /\ offset' = start
    /\ total' = -1
    /\ pc' = "request"
    /\ UNCHANGED <<flags, fetched, allRecords, stdout, fatal, db, requests,
                   pages, forwarded>>

\* lines 131-134 / 215-218: os.Create fails, log.Fatalf
CreateFail ==
    /\ pc = "start"
    /\ output # <<>>
    /\ pageSize' = ClampPageSize(limit)
    /\ fatal' = "create csv"
    /\ pc' = "aborted"
    /\ UNCHANGED <<flags, offset, total, fetched, allRecords, wbuf, file,
                   fileOpen, stdout, db, requests, pages, forwarded>>

\* lines 144-152 / 232-238: build the URL and issue the GET
SendRequest(cap) ==
    /\ pc = "request"
    /\ Len(requests) < cap
    /\ requests' = Append(requests, [start |-> offset, limit |-> pageSize])
    /\ pc' = "await"
    /\ UNCHANGED <<flags, pageSize, offset, total, fetched, allRecords, wbuf,
                   file, fileOpen, stdout, fatal, db, pages, forwarded>>

\* lines 153-159 / 239-245 with doGet 107-119: transport error, non-200
\* status or undecodable body; log.Fatalf exits the process at once, so the
\* deferred w.Flush and f.Close do not run
FetchFailRetry ==
    /\ pc = "await"
    /\ pc' = "request"
    /\ UNCHANGED <<flags, pageSize, offset, total, fetched, allRecords, wbuf,
                   file, fileOpen, stdout, fatal, db, requests, pages, forwarded>>

FetchFail ==
    /\ pc = "await"
    /\ \E msg \in {"request error", "decode"} : fatal' = msg
    /\ pc' = "aborted"
    /\ UNCHANGED <<flags, pageSize, offset, total, fetched, allRecords, wbuf,
                   file, fileOpen, stdout, db, requests, pages, forwarded>>

\* lines 161-202 / 247-307: the rest of one loop iteration on a decoded
\* page (recs, results), and the completion code when the loop breaks.  On
\* the normal return the deferred w.Flush finds the buffer already empty
\* (the page was flushed at line 175 / 274) and the deferred f.Close runs.
ProcessPage(recs, results) ==
    LET filtered == IF cmd = "buckets" THEN FilterBuckets(recs, cloudType) ELSE recs
        toFile == output # <<>>
        w1 == IF toFile THEN wbuf \o Rows(cmd, onlyBucket, filtered) ELSE wbuf
        f1 == IF toFile THEN PageFlush(file, w1) ELSE file
        all1 == IF toFile THEN allRecords ELSE allRecords \o filtered
        tot1 == CaptureTotal(total, results)
        stop == ShouldStop(Len(recs), pageSize, tot1, offset)
    IN  /\ pages' = Append(pages, recs)
        /\ forwarded' = forwarded \o filtered
        /\ wbuf' = <<>>
        /\ file' = f1
        /\ allRecords' = all1
        /\ fetched' = fetched + Len(filtered)
        /\ total' = tot1
        /\ IF stop
           THEN /\ pc' = "done"
                /\ stdout' = Completion(cmd, output, onlyBucket, all1)
                /\ fileOpen' = FALSE
                /\ UNCHANGED offset
           ELSE /\ pc' = "request"
                /\ offset' = NextOffset(offset, pageSize)
                /\ UNCHANGED <<stdout, fileOpen>>
        /\ UNCHANGED <<flags, pageSize, fatal, db, requests>>

\* an arbitrary API: any page of at most limit (and at most MaxPageLen)
\* records, with any count in its envelope
ReceivePage ==
    /\ pc = "await"
    /\ \E n \in 0 .. Min(requests[Len(requests)].limit, MaxPageLen) :
         \E recs \in PagesOf(cmd, n, Received) :
           \E results \in ResultsValues :
             ProcessPage(recs, results)

\* the well-behaved API: the slice of db at the requested offset, total N
ReceivePageWB ==
    /\ pc = "await"
    /\ LET req == requests[Len(requests)]
       IN  ProcessPage(Slice(db, req.start, req.limit), Len(db))

Next ==
    \/ Start
    \/ CreateFail
    \/ SendRequest(MaxPages)
    \/ FetchFail
    \/ ReceivePage

Spec == Init /\ [][Next]_vars

----------------------------------------------------------------------------
(* The same handlers against a well-behaved API: a fixed list db of N      *)
(* records, request (start=o, limit=P) answered with records               *)
(* o .. min(o+P,N)-1 and total N, and no failure.  One iteration follows   *)
(* the other without outside help, hence the weak fairness.                *)

DbsOf(c) == UNION { PagesOf(c, n, 0) : n \in 0 .. MaxN }

InitWB ==
    /\ FlagsInit
    /\ start \in 0 .. MaxStart
    /\ db \in DbsOf(cmd)
    /\ LocalsInit

MaxRequestsWB == MaxN + MaxStart + 2

NextWB ==
    \/ Start
    \/ SendRequest(MaxRequestsWB)
    \/ ReceivePageWB

SpecWB == InitWB /\ [][NextWB]_vars /\ WF_vars(NextWB)

----------------------------------------------------------------------------
(* Vocabulary of the properties *)

ToFile == output # <<>>

LastPage == pages[Len(pages)]

IsPrefix(a, b) == Len(a) <= Len(b) /\ SubSeq(b, 1, Len(a)) = a

\* lower-casing of an ASCII string
ToLower(s) == [i \in 1 .. Len(s) |-> IF 65 <= s[i] /\ s[i] <= 90 THEN s[i] + 32 ELSE s[i]]

\* the buckets of a page whose type tag equals the filter, ignoring case
Matching(recs, ct) ==
    IF ct = <<>> THEN recs
    ELSE SelectSeq(recs, LAMBDA b : ToLower(b.type) = ToLower(ct))

\* the page size the documentation promises for a requested -limit
Effective(l) == IF l \in 1 .. 1000 THEN l ELSE 1000

\* the file a complete export of recs consists of
ExportOf(recs) == <<Header(cmd, onlyBucket)>> \o Rows(cmd, onlyBucket, recs)

----------------------------------------------------------------------------
(* Properties *)

\* C1: the requests are issued at offsets s, s+P, s+2P, ... in strictly
\* increasing order, one per decoded page, and none is issued after the
\* first page that returned fewer than P records.
C1_OffsetsInOrder ==
    pc # "start" =>
      /\ pageSize \in 1 .. 1000
      /\ \A i \in 1 .. Len(requests) : requests[i].start = start + (i - 1) * pageSize
      /\ \A i \in 1 .. Len(requests) : \A j \in 1 .. Len(requests) :
           i < j => requests[i].start < requests[j].start
      /\ Len(requests) <= Len(pages) + 1
      /\ \A i \in 1 .. Len(pages) : Len(pages[i]) < pageSize => Len(requests) <= i

C1_Witness ==
    /\ pc = "done"
    /\ Len(requests) = 3
    /\ start = 1
    /\ pageSize = 2
    /\ requests[3].start = 5
    /\ Len(pages[3]) < pageSize

\* C2: the limit of every request is the requested -limit when that lies
\* in [1,1000] and 1000 otherwise, and the page size never changes.
C2_EffectivePageSize ==
    pc # "start" =>
      /\ pageSize = Effective(limit)
      /\ \A i \in 1 .. Len(requests) : requests[i].limit = Effective(limit)

C2_Witness ==
    /\ limit = 0
    /\ Len(requests) >= 1
    /\ requests[1].limit = 1000
    /\ pc = "done"

\* C3: after a page fetched at offset o, the loop stops exactly when the
\* page was shorter than P, or the captured total T is positive and
\* o + P >= T; with a captured total of 0 a full page is followed by
\* another request.
C3_StopIff ==
    [][ (pc = "await" /\ pc' \in {"request", "done"}) =>
          LET n == Len(pages'[Len(pages')])
          IN  /\ (pc' = "done") <=>
                   (n < pageSize \/ (total' > 0 /\ offset + pageSize >= total'))
              /\ (total' = 0 /\ n >= pageSize) => pc' = "request"
      ]_vars

C3_Witness ==
    /\ pc = "done"
    /\ Len(pages) = 2
    /\ Len(LastPage) = pageSize
    /\ total > 0
    /\ offset + pageSize = total

\* C4: the total is captured from the first page only; no later page
\* changes it.
C4_TotalFromFirstPageOnly ==
    [][ Len(pages) >= 1 => total' = total ]_vars

\* C5: a failed fetch ends the run: no request follows it (a request is
\* only ever issued after the previous one was decoded), the run stays
\* aborted, and without -o nothing was or will be printed as a result.
C5_FailureAborts ==
    [][ /\ (pc = "await" /\ Len(pages') = Len(pages)) =>
              /\ pc' = "aborted"
              /\ fatal' # ""
              /\ requests' = requests
              /\ (~ToFile => stdout' = <<>>)
        /\ pc = "aborted" => (pc' = "aborted" /\ requests' = requests /\ stdout' = stdout)
      ]_vars

C5_Witness ==
    /\ pc = "aborted"
    /\ fatal = "request error"
    /\ ~ToFile
    /\ Len(pages) = 2
    /\ Len(requests) = 3
    /\ forwarded # <<>>
    /\ stdout = <<>>

\* C6: on completion the output holds every forwarded record once, in
\* arrival order: the file is the header followed by one row per record,
\* and without -o the printed array (or, with -onlybucket, the printed
\* lines) holds exactly the accumulated records.
C6_OutputHoldsForwarded ==
    pc = "done" =>
      IF ToFile
      THEN file = ExportOf(forwarded) /\ wbuf = <<>>
      ELSE IF cmd = "buckets" /\ onlyBucket
           THEN /\ Len(stdout) = Len(forwarded)
                /\ \A i \in 1 .. Len(stdout) :
                     stdout[i].kind = "line" /\ stdout[i].body = forwarded[i].bucket
           ELSE /\ Len(stdout) = 1
                /\ stdout[1].kind = "array"
                /\ stdout[1].body = forwarded

\* C7 as stated: whenever a request is in flight (or the run aborted on
\* it), the header and the rows of all earlier pages are in the file.
C7_FlushedBeforeEveryRequest ==
    (ToFile /\ pc \in {"await", "aborted"} /\ fatal # "create csv") =>
        file = ExportOf(forwarded)

\* C7 amended: from the second request on, whenever a request is in flight
\* (or the run aborted on it), the header and the rows of all earlier pages
\* are in the file; and no step removes or alters rows of the file.
C7_FlushedBeforeLaterRequests ==
    [][ /\ (ToFile /\ pc' \in {"await", "aborted"} /\ Len(pages') >= 1) =>
              file' = ExportOf(forwarded')
        /\ (ToFile /\ pc # "start") => IsPrefix(file, file')
      ]_vars

C7_Witness ==
    /\ ToFile
    /\ pc = "aborted"
    /\ Len(pages) = 2
    /\ pageSize = 1
    /\ Len(file) = 3
    /\ wbuf = <<>>

\* C8: in the buckets command each page contributes to the sink exactly
\* its buckets whose type equals the filter ignoring case, in arrival
\* order; every bucket when the filter is empty.
C8_FilterByType ==
    [][ (cmd = "buckets" /\ pc = "await" /\ pc' \in {"request", "done"}) =>
          LET kept == Matching(pages'[Len(pages')], cloudType)
          IN  /\ forwarded' = forwarded \o kept
              /\ IF ToFile
                 THEN file' = file \o wbuf \o Rows(cmd, onlyBucket, kept)
                 ELSE allRecords' = allRecords \o kept
      ]_vars

C8_Witness ==
    /\ cmd = "buckets"
    /\ cloudType = AWS
    /\ onlyBucket
    /\ ~ToFile
    /\ pc = "done"
    /\ Len(pages) = 1
    /\ Len(LastPage) = 5
    /\ LastPage[1].type = aws
    /\ LastPage[2].type = azure
    /\ LastPage[3].type = aws
    /\ LastPage[4].type = azure
    /\ LastPage[5].type = aws
    /\ stdout = << [kind |-> "line", body |-> LastPage[1].bucket],
                   [kind |-> "line", body |-> LastPage[3].bucket],
                   [kind |-> "line", body |-> LastPage[5].bucket] >>

\* C9: with -o, once the command has ended, normally or through a fatal
\* error, the csv.Writer has been flushed and the file closed.
C9_HandleReleased ==
    (ToFile /\ pc \in {"done", "aborted"}) => (~fileOpen /\ wbuf = <<>>)

\* C10: against the well-behaved API every run terminates, never requests
\* an offset >= max(N, s+1), and ends having forwarded exactly the records
\* s .. N-1 (those matching the type filter), once each and in order.
C10_Expected == Matching(SubSeq(db, start + 1, Len(db)), cloudType)

C10_WellBehaved ==
    /\ <>(pc = "done")
    /\ [](\A i \in 1 .. Len(requests) :
            requests[i].start < (IF Len(db) > start + 1 THEN Len(db) ELSE start + 1))
    /\ [](pc = "done" =>
            /\ forwarded = C10_Expected
            /\ IF ToFile THEN file = ExportOf(C10_Expected)
                         ELSE allRecords = C10_Expected)

C10_Witness ==
    /\ pc = "done"
    /\ cmd = "buckets"
    /\ cloudType # <<>>
    /\ start = 1
    /\ Len(db) = 3
    /\ pageSize = 1
    /\ Len(requests) = 2
    /\ Len(forwarded) = 1

====
